---- MODULE Spec2Model ----
(***************************************************************************)
(* mnexec, the execution utility of Mininet: the option loop of main()     *)
(* (mnexec.c), the platform functions it calls (mnexec_linux.c with the    *)
(* Linux and the *BSD variants) and the option string of mnexec.h.         *)
(*                                                                         *)
(* One invocation is a small set of processes: the orchestrator that       *)
(* starts the tool, the tool itself and the children that -d forks.  The   *)
(* kernel and libc calls the code makes (getopt, fork, setsid, open,       *)
(* setns, ...) are modelled by their documented effect; the outcome of a   *)
(* call that depends on the environment is chosen by the action.           *)
(***************************************************************************)
EXTENDS Integers, Sequences, FiniteSets, TLC

VARIABLES
    variant,    \* "linux" or "bsd": which OPTS / platform file was compiled
    argv,       \* argv[1..argc-1], each token a sequence of characters
    procs,      \* pid -> process state
    stdout,     \* what has reached the reader of standard output, in order
    stderr,     \* diagnostics written to standard error, in order
    tasks,      \* cgroup hierarchy -> pids written into its tasks file
    trace       \* every system interaction of the invocation, in order

vars == <<variant, argv, procs, stdout, stderr, tasks, trace>>

----------------------------------------------------------------------------
(* Bounds and the environment of one invocation *)

MaxOpts == 2            \* option tokens in front of the command line

OrchPid == 40           \* the orchestrator that runs the tool
ToolPid == 41           \* the pid the tool is started with
TargetPid == 7          \* a running process whose namespaces -a can join
DTableSize == 8         \* getdtablesize(): the soft limit on descriptors

ExistingPids == {1, TargetPid, OrchPid, ToolPid}
Executables == {<<"l", "s">>}
Hierarchies == <<"cpu", "cpuacct", "cpuset">>

Digit == {"0", "1", "2", "3", "4", "5", "6", "7", "8", "9"}
Lower == {"a", "b", "c", "d", "e", "f", "g", "h", "i", "j", "k", "l", "m",
          "n", "o", "p", "q", "r", "s", "t", "u", "v", "w", "x", "y", "z"}
Upper == {"A", "B", "C", "D", "E", "F", "G", "H", "I", "J", "K", "L", "M",
          "N", "O", "P", "Q", "R", "S", "T", "U", "V", "W", "X", "Y", "Z"}

OptTokens ==
    { <<"-", "c">>, <<"-", "d">>, <<"-", "p">>, <<"-", "d", "p">>,
      <<"-", "n">>, <<"-", "a", "7">>, <<"-", "a", "9">>,
      <<"-", "g", "l", "s">>, <<"-", "g", ";">>,
      <<"-", "r", "5">>, <<"-", "r">>, <<"-", "v">>, <<"-", "h">>, <<"-", "x">>,
      <<"-", "-">> }

CmdLines ==
    { <<>>, << <<"7">> >>, << <<"l", "s">>, <<"-", "d">> >> }

RECURSIVE SeqsUpTo(_, _)
SeqsUpTo(S, n) ==
    IF n = 0 THEN {<<>>}
    ELSE LET shorter == SeqsUpTo(S, n - 1)
         IN  shorter \cup {Append(s, x) : s \in shorter, x \in S}

ArgvSet == {o \o c : o \in SeqsUpTo(OptTokens, MaxOpts), c \in CmdLines}

----------------------------------------------------------------------------
(* libc helpers *)

\* A variant in which every build is given the option string of the Linux
\* build (sensitivity of C15)
OPTSMut == <<"+", "c", "d", "n", "p", "a", ":", "g", ":", "r", ":", "v", "h">>

\* mnexec.h: the option string handed to getopt
OPTS ==
    IF variant = "linux"
    THEN <<"+", "c", "d", "n", "p", "a", ":", "g", ":", "r", ":", "v", "h">>
    ELSE <<"+", "c", "d", "p", "v", "h">>

HasOpt(optstring, ch) ==
    ch # ":" /\ \E i \in 2..Len(optstring) : optstring[i] = ch

TakesArg(optstring, ch) ==
    \E i \in 2..(Len(optstring) - 1) : optstring[i] = ch /\ optstring[i + 1] = ":"

\* getopt(argc, argv, "+..."): one call, from the scanning state
\* (optind, nextchar); c = "EOF" stands for the return value -1.
Getopt(args, optind, nextchar, optstring) ==
    IF nextchar = 0 /\ optind > Len(args)
    THEN [c |-> "EOF", optarg |-> <<>>, optind |-> optind, nextchar |-> 0]
    ELSE IF nextchar = 0 /\ args[optind] = <<"-", "-">>
    THEN [c |-> "EOF", optarg |-> <<>>, optind |-> optind + 1, nextchar |-> 0]
    ELSE IF nextchar = 0 /\ (Len(args[optind]) < 2 \/ args[optind][1] # "-")
    THEN [c |-> "EOF", optarg |-> <<>>, optind |-> optind, nextchar |-> 0]
    ELSE
      LET tok  == args[optind]
          pos  == IF nextchar = 0 THEN 2 ELSE nextchar
          ch   == tok[pos]
          last == pos = Len(tok)
          step == [c |-> ch, optarg |-> <<>>,
                   optind |-> IF last THEN optind + 1 ELSE optind,
                   nextchar |-> IF last THEN 0 ELSE pos + 1]
      IN  IF ~HasOpt(optstring, ch)
          THEN [step EXCEPT !.c = "?"]
          ELSE IF ~TakesArg(optstring, ch)
          THEN step
          ELSE IF ~last
          THEN [c |-> ch, optarg |-> SubSeq(tok, pos + 1, Len(tok)),
                optind |-> optind + 1, nextchar |-> 0]
          ELSE IF optind + 1 > Len(args)
          THEN [c |-> "?", optarg |-> <<>>, optind |-> optind + 1, nextchar |-> 0]
          ELSE [c |-> ch, optarg |-> args[optind + 1],
                optind |-> optind + 2, nextchar |-> 0]

DigitVal(ch) ==
    CASE ch = "0" -> 0 [] ch = "1" -> 1 [] ch = "2" -> 2 [] ch = "3" -> 3
      [] ch = "4" -> 4 [] ch = "5" -> 5 [] ch = "6" -> 6 [] ch = "7" -> 7
      [] ch = "8" -> 8 [] ch = "9" -> 9

\* atoi(): the value of the leading decimal digits, 0 if there are none
RECURSIVE AtoiFrom(_, _, _)
AtoiFrom(s, i, acc) ==
    IF i > Len(s) \/ s[i] \notin Digit THEN acc
    ELSE AtoiFrom(s, i + 1, 10 * acc + DigitVal(s[i]))

Atoi(s) == AtoiFrom(s, 1, 0)

\* printf("%d"): the decimal digits of n >= 0 as bytes
RECURSIVE Decimal(_)
Decimal(n) ==
    IF n < 10 THEN <<48 + n>>
    ELSE Append(Decimal(n \div 10), 48 + (n % 10))

\* isalnum() in the C locale
IsAlnum(ch) == ch \in Digit \/ ch \in Lower \/ ch \in Upper

\* open(): the lowest descriptor not in use
LowestFree(fds) == CHOOSE fd \in 0..DTableSize : fd \notin fds /\ \A g \in 0..(fd - 1) : g \in fds

----------------------------------------------------------------------------
(* Process state and kernel primitives *)

Max(S) == CHOOSE x \in S : \A y \in S : y <= x

\* fork(): the pid the kernel gives the child
NewPid == Max(DOMAIN procs) + 1

\* A process that is not part of the tool (orchestrator, -a target)
Bystander(pid, ns) ==
    [pc |-> "other", pgid |-> pid, sid |-> pid, ctty |-> FALSE,
     fds |-> {0, 1, 2}, buf |-> <<>>,
     c |-> "", optarg |-> <<>>, optind |-> 1, nextchar |-> 0,
     netns |-> ns, mntns |-> ns, root |-> ns, cwd |-> "/",
     private |-> FALSE, sysfs |-> ns,
     sched |-> [policy |-> "OTHER", prio |-> 0],
     status |-> 0, image |-> <<>>, parent |-> 0, done |-> <<>>]

\* The tool at the entry of main()
Fresh(leader, inherited) ==
    [pc |-> "opts",
     pgid |-> IF leader THEN ToolPid ELSE OrchPid, sid |-> OrchPid, ctty |-> TRUE,
     fds |-> {0, 1, 2} \cup inherited, buf |-> <<>>,
     c |-> "", optarg |-> <<>>, optind |-> 1, nextchar |-> 0,
     netns |-> "host", mntns |-> "host", root |-> "host", cwd |-> "/home",
     private |-> FALSE, sysfs |-> "host",
     sched |-> [policy |-> "OTHER", prio |-> 0],
     status |-> 0, image |-> <<>>, parent |-> OrchPid, done |-> <<>>]

InheritedFds == {{3, 5}}

Sys(p, op, arg, ok) == [pid |-> p, op |-> op, arg |-> arg, ok |-> ok]
Diag(p, msg) == [pid |-> p, msg |-> msg]
Out(p, kind, text) == [pid |-> p, kind |-> kind, text |-> text]

\* A variant of the getopt call without the leading '+' of OPTS: a token
\* that is no option is passed over and scanning goes on behind it
\* (sensitivity of C16)
EnterMut(pr) ==
    LET tok  == argv[pr.optind]
        skip == /\ pr.nextchar = 0
                /\ pr.optind < Len(argv)
                /\ (Len(tok) < 2 \/ tok[1] # "-")
        g == Getopt(argv, IF skip THEN pr.optind + 1 ELSE pr.optind, pr.nextchar, OPTS)
    IN  [pr EXCEPT !.c = g.c, !.optarg = g.optarg,
                   !.optind = g.optind, !.nextchar = g.nextchar]

\* The first call of getopt: a process with pc = "opts" stands at the switch
\* with getopt's answer c
Enter(pr) ==
    LET g == Getopt(argv, pr.optind, pr.nextchar, OPTS)
    IN  [pr EXCEPT !.c = g.c, !.optarg = g.optarg,
                   !.optind = g.optind, !.nextchar = g.nextchar]

\* Bookkeeping: done lists the options whose case has run, with their
\* arguments (the return value -1 of getopt is no option)
Handled(pr) ==
    IF pr.c = "EOF" THEN pr
    ELSE [pr EXCEPT !.done = Append(@, [c |-> pr.c, optarg |-> pr.optarg])]

\* break: the case is over, while ((c = getopt(argc, argv, OPTS)) != -1)
Break(pr) == Enter(Handled(pr))

\* p stands at case c of the switch
AtOpt(p, c) == p \in DOMAIN procs /\ procs[p].pc = "opts" /\ procs[p].c = c

\* exit(status) or return status from main: stdio is flushed, descriptors close
Exited(pr, st) ==
    [Handled(pr) EXCEPT !.pc = "exited", !.status = st, !.buf = <<>>, !.fds = {}]

\* setsid(): refused for a process-group leader, otherwise a new session and
\* a new process group, both led by the caller, without controlling terminal
SetsidOk(p, pr) == pr.pgid # p
Setsid(p, pr) ==
    IF SetsidOk(p, pr)
    THEN [pr EXCEPT !.sid = p, !.pgid = p, !.ctty = FALSE]
    ELSE pr

Init ==
    /\ variant \in {"linux", "bsd"}
    /\ argv \in ArgvSet
    /\ \E leader \in BOOLEAN, inherited \in InheritedFds :
          procs = (OrchPid :> Bystander(OrchPid, "host"))
                  @@ (TargetPid :> Bystander(TargetPid, "target"))
                  @@ (ToolPid :> Enter(Fresh(leader, inherited)))
    /\ stdout = <<>>
    /\ stderr = <<>>
    /\ tasks = [h \in {Hierarchies[i] : i \in 1..Len(Hierarchies)} |-> {}]
    /\ trace = <<>>

----------------------------------------------------------------------------
(* Process hygiene: -c, -d, -p *)

\* case 'c': close(fd) for fd = getdtablesize() down to 3
CloseFrom(fds, top) == {fd \in fds : fd <= 2 \/ fd > top}

\* A variant of case 'c' whose loop stops one descriptor early (fd > 3):
\* descriptor 3 stays open (sensitivity of C19)
OptCMut(p) ==
    /\ AtOpt(p, "c")
    /\ procs' = [procs EXCEPT ![p] =
                    Break([procs[p] EXCEPT !.fds = {fd \in @ : fd <= 3 \/ fd > DTableSize}])]
    /\ trace' = Append(trace, Sys(p, "close", "", TRUE))
    /\ UNCHANGED <<variant, argv, stdout, stderr, tasks>>

OptC(p) ==
    /\ AtOpt(p, "c")
    /\ procs' = [procs EXCEPT ![p] =
                    Break([procs[p] EXCEPT !.fds = CloseFrom(@, DTableSize)])]
    /\ trace' = Append(trace, Sys(p, "close", "", TRUE))
    /\ UNCHANGED <<variant, argv, stdout, stderr, tasks>>

\* A variant of the test that never sees a leader: no fork, setsid() is
\* called by whoever runs -d (sensitivity of C23)
IsLeaderMut(p) == procs[p].pgid = 0

\* case 'd', getpgrp() == getpid(): fork()
IsLeader(p) == procs[p].pgid = p

\* A variant of the fork in which the parent lacks its return 0 and goes on
\* with the option loop (sensitivity of C6)
OptDForkMut(p) ==
    /\ AtOpt(p, "d")
    /\ procs[p].pgid = p
    /\ procs' = [procs EXCEPT ![p] = Break(procs[p])]
                 @@ (NewPid :> [procs[p] EXCEPT !.pc = "fork_child", !.parent = p])
    /\ trace' = Append(trace, Sys(p, "fork", "", TRUE))
    /\ UNCHANGED <<variant, argv, stdout, stderr, tasks>>

OptDFork(p) ==
    /\ AtOpt(p, "d")
    /\ IsLeader(p)
    /\ LET me == procs[p]
           child == NewPid
       IN  /\ procs' = [procs EXCEPT ![p] = [me EXCEPT !.pc = "fork_parent"]]
                       @@ (child :> [me EXCEPT !.pc = "fork_child", !.parent = p])
           /\ trace' = Append(trace, Sys(p, "fork", "", TRUE))
    /\ UNCHANGED <<variant, argv, stdout, stderr, tasks>>

\* case -1: perror("fork"); return 1
OptDForkFails(p) ==
    /\ AtOpt(p, "d")
    /\ IsLeader(p)
    /\ procs' = [procs EXCEPT ![p] = Exited(@, 1)]
    /\ stdout' = stdout \o procs[p].buf
    /\ stderr' = Append(stderr, Diag(p, "fork"))
    /\ trace' = Append(trace, Sys(p, "fork", "", FALSE))
    /\ UNCHANGED <<variant, argv, tasks>>

\* default: the parent returns 0
ForkParent(p) ==
    /\ p \in DOMAIN procs
    /\ procs[p].pc = "fork_parent"
    /\ procs' = [procs EXCEPT ![p] = Exited(@, 0)]
    /\ stdout' = stdout \o procs[p].buf
    /\ UNCHANGED <<variant, argv, stderr, tasks, trace>>

\* case 0: the child breaks out of the inner switch and calls setsid()
ForkChild(p) ==
    /\ p \in DOMAIN procs
    /\ procs[p].pc = "fork_child"
    /\ procs' = [procs EXCEPT ![p] = Break([Setsid(p, @) EXCEPT !.pc = "opts"])]
    /\ trace' = Append(trace, Sys(p, "setsid", "", SetsidOk(p, procs[p])))
    /\ UNCHANGED <<variant, argv, stdout, stderr, tasks>>

\* A variant in which setsid() is called by the forked child only, inside
\* the if (sensitivity of C7)
OptDNoForkMut(p) ==
    /\ AtOpt(p, "d")
    /\ procs[p].pgid # p
    /\ procs' = [procs EXCEPT ![p] = Break(@)]
    /\ UNCHANGED <<variant, argv, stdout, stderr, tasks, trace>>

\* case 'd', not a process-group leader: setsid() without a fork
OptDNoFork(p) ==
    /\ AtOpt(p, "d")
    /\ ~IsLeader(p)
    /\ procs' = [procs EXCEPT ![p] = Break(Setsid(p, @))]
    /\ trace' = Append(trace, Sys(p, "setsid", "", SetsidOk(p, procs[p])))
    /\ UNCHANGED <<variant, argv, stdout, stderr, tasks>>

\* A variant that prints getppid() (sensitivity of C2)
PidLineMut(p) == <<1>> \o Decimal(procs[p].parent) \o <<10>>

\* printf("\001%d\n", getpid())
PidLine(p) == <<1>> \o Decimal(p) \o <<10>>

\* A variant without the fflush: the line stays in the stdio buffer
\* (sensitivity of C8)
FflushMut(buf) == [sent |-> <<>>, buf |-> buf]

\* fflush(stdout): what is buffered reaches the reader; the buffer is empty
Fflush(buf) == [sent |-> buf, buf |-> <<>>]

\* case 'p'
OptP(p) ==
    /\ AtOpt(p, "p")
    /\ LET printed == Append(procs[p].buf, Out(p, "pid", PidLine(p)))
           f == Fflush(printed)
       IN  /\ procs' = [procs EXCEPT ![p] = Break([@ EXCEPT !.buf = f.buf])]
           /\ stdout' = stdout \o f.sent
           /\ trace' = IF f.sent # <<>>
                       THEN Append(trace, Sys(p, "write", "stdout", TRUE))
                       ELSE trace
    /\ UNCHANGED <<variant, argv, stderr, tasks>>

----------------------------------------------------------------------------
(* Isolation attacher and scheduling adjuster: -n, -a, -g, -r *)

\* What a function that ends without a return statement may hand back
UndefinedInt == {-1, 0}

\* try_contain(): unshare, remount / private, mount sysfs.  step names the
\* first call that fails ("none": all succeed).  Every failure returns 1;
\* the successful path ends without a return statement.  The *BSD variant
\* returns 0 and calls nothing.
TryContain(p, pr, step, undef) ==
    IF variant # "linux"
    THEN [ret |-> 0, proc |-> pr, calls |-> <<>>, diags |-> <<>>]
    ELSE IF step = "unshare"
    THEN [ret |-> 1, proc |-> pr,
          calls |-> <<Sys(p, "unshare", "", FALSE)>>,
          diags |-> <<Diag(p, "unshare")>>]
    ELSE LET unshared == [pr EXCEPT !.netns = "new", !.mntns = "new"]
             private  == [unshared EXCEPT !.private = TRUE]
             mounted  == [private EXCEPT !.sysfs = "new"]
         IN  IF step = "remount"
             THEN [ret |-> 1, proc |-> unshared,
                   calls |-> <<Sys(p, "unshare", "", TRUE), Sys(p, "mount", "/", FALSE)>>,
                   diags |-> <<Diag(p, "remount")>>]
             ELSE IF step = "mount"
             THEN [ret |-> 1, proc |-> private,
                   calls |-> <<Sys(p, "unshare", "", TRUE), Sys(p, "mount", "/", TRUE),
                               Sys(p, "mount", "/sys", FALSE)>>,
                   diags |-> <<Diag(p, "mount")>>]
             ELSE [ret |-> undef, proc |-> mounted,
                   calls |-> <<Sys(p, "unshare", "", TRUE), Sys(p, "mount", "/", TRUE),
                               Sys(p, "mount", "/sys", TRUE)>>,
                   diags |-> <<>>]

\* case 'n': if (try_contain() < 0) return 1; break
ContainFailed(ret) == ret < 0

OptN(p) ==
    /\ AtOpt(p, "n")
    /\ LET me == procs[p]
       IN  \E step \in {"unshare", "remount", "mount", "none"}, undef \in UndefinedInt :
              LET r == TryContain(p, me, step, undef)
              IN  /\ procs' = [procs EXCEPT ![p] =
                                  IF ContainFailed(r.ret) THEN Exited(r.proc, 1)
                                  ELSE Break(r.proc)]
                  /\ stdout' = IF ContainFailed(r.ret) THEN stdout \o me.buf ELSE stdout
                  /\ stderr' = stderr \o r.diags
                  /\ trace' = trace \o r.calls
    /\ UNCHANGED <<variant, argv, tasks>>

\* open() needs a free slot below the descriptor limit
CanOpen(fds) == \E fd \in 0..(DTableSize - 1) : fd \notin fds

\* The namespaces of the process that /proc/<pid>/ns names
NsOf(pid) == IF pid \in DOMAIN procs THEN procs[pid].netns ELSE "host"

\* A variant of the test that looks at the open only: a refused setns() on
\* the mount namespace does not select plan B (sensitivity of C13)
NeedPlanBMut(opened, joined) == ~opened

\* if (nsid < 0 || setns(nsid, 0) != 0): plan B is needed
NeedPlanB(opened, joined) == ~opened \/ ~joined

\* A variant of case 'a' without the return 1 after perror(path): a failed
\* open of the network namespace file is reported and the loop goes on
\* (sensitivity of C11)
AttachMut(p, pr, pid, env) ==
    [failed |-> FALSE, proc |-> pr,
     calls |-> <<Sys(p, "open", "net", env.netOpen /\ pid \in ExistingPids)>>,
     diags |-> <<Diag(p, "ns/net")>>]

\* case 'a': join pid's network namespace, then its mount namespace (plan A)
\* or its root directory (plan B), then chdir(getcwd()).  env tells which of
\* the calls the kernel lets succeed.  Neither descriptor is closed.
Attach(p, pr, pid, env) ==
    IF ~(env.netOpen /\ pid \in ExistingPids /\ CanOpen(pr.fds))
    THEN [failed |-> TRUE, proc |-> pr,
          calls |-> <<Sys(p, "open", "net", FALSE)>>, diags |-> <<Diag(p, "ns/net")>>]
    ELSE
    LET opened1 == [pr EXCEPT !.fds = @ \cup {LowestFree(pr.fds)}]
        calls1  == <<Sys(p, "open", "net", TRUE)>>
    IN  IF ~env.netSetns
        THEN [failed |-> TRUE, proc |-> opened1,
              calls |-> Append(calls1, Sys(p, "setns", "net", FALSE)),
              diags |-> <<Diag(p, "setns")>>]
        ELSE
        LET joined1 == [opened1 EXCEPT !.netns = NsOf(pid)]
            calls2  == Append(calls1, Sys(p, "setns", "net", TRUE))
            mntOpen == env.mntOpen /\ CanOpen(joined1.fds)
            opened2 == IF mntOpen
                       THEN [joined1 EXCEPT !.fds = @ \cup {LowestFree(joined1.fds)}]
                       ELSE joined1
            calls3  == Append(calls2, Sys(p, "open", "mnt", mntOpen))
            planA   == ~NeedPlanB(mntOpen, mntOpen /\ env.mntSetns)
            calls4  == IF mntOpen
                       THEN Append(calls3, Sys(p, "setns", "mnt", env.mntSetns))
                       ELSE calls3
        IN  IF planA
            THEN \* the kernel moves root and cwd to the root of the namespace
                 [failed |-> FALSE,
                  proc |-> [opened2 EXCEPT !.mntns = NsOf(pid), !.root = NsOf(pid),
                                           !.cwd = "/"],
                  calls |-> Append(calls4, Sys(p, "chdir", "/", TRUE)),
                  diags |-> <<>>]
            ELSE IF ~env.chroot
            THEN [failed |-> TRUE, proc |-> opened2,
                  calls |-> Append(calls4, Sys(p, "chroot", "", FALSE)),
                  diags |-> <<Diag(p, "root")>>]
            ELSE
            LET rooted == [opened2 EXCEPT !.root = NsOf(pid)]
                calls5 == Append(calls4, Sys(p, "chroot", "", TRUE))
            IN  [failed |-> ~env.chdir, proc |-> rooted,
                 calls |-> Append(calls5, Sys(p, "chdir", pr.cwd, env.chdir)),
                 diags |-> IF env.chdir THEN <<>> ELSE <<Diag(p, "cwd")>>]

\* The outcomes the kernel can give the calls of case 'a': a call that is
\* not reached has no outcome of its own
AttachEnvs ==
    {e \in [netOpen : BOOLEAN, netSetns : BOOLEAN, mntOpen : BOOLEAN,
            mntSetns : BOOLEAN, chroot : BOOLEAN, chdir : BOOLEAN] :
        /\ ~e.netOpen => ~e.netSetns
        /\ ~e.netSetns => ~e.mntOpen
        /\ ~e.mntOpen => ~e.mntSetns
        /\ (~e.netSetns \/ e.mntSetns) => ~e.chroot
        /\ ~e.chroot => ~e.chdir}

OptA(p) ==
    /\ AtOpt(p, "a")
    /\ LET me == procs[p]
           pid == Atoi(procs[p].optarg)
       IN  \E env \in AttachEnvs :
              LET r == Attach(p, me, pid, env)
              IN  /\ procs' = [procs EXCEPT ![p] =
                                  IF r.failed THEN Exited(r.proc, 1) ELSE Break(r.proc)]
                  /\ stdout' = IF r.failed THEN stdout \o me.buf ELSE stdout
                  /\ stderr' = stderr \o r.diags
                  /\ trace' = trace \o r.calls
    /\ UNCHANGED <<variant, argv, tasks>>

\* A variant of validate() that lets every path through (sensitivity of C9)
ValidateMut(path) == Len(path) >= 0

\* validate(): only alphanumerics and '/'
Validate(path) == \A i \in 1..Len(path) : IsAlnum(path[i]) \/ path[i] = "/"

\* cgroup(): the loop over groups[].  files[h] is what the tasks file of
\* hierarchy h does: "noent" (fopen fails), "ok", or "wfail" (fopen succeeds,
\* the kernel refuses the pid when it is written).  count counts fopen()s.
RECURSIVE CgroupLoop(_, _, _, _)
CgroupLoop(p, fds, files, i) ==
    IF i > Len(Hierarchies)
    THEN [count |-> 0, written |-> {}, calls |-> <<>>]
    ELSE LET h == Hierarchies[i]
             opened == files[h] # "noent" /\ CanOpen(fds)
             rest == CgroupLoop(p, fds, files, i + 1)
         IN  IF opened
             THEN [count |-> rest.count + 1,
                   written |-> IF files[h] = "ok" THEN rest.written \cup {h}
                               ELSE rest.written,
                   calls |-> <<Sys(p, "fopen", h, TRUE), Sys(p, "write", h, files[h] = "ok")>>
                             \o rest.calls]
             ELSE [rest EXCEPT !.calls = <<Sys(p, "fopen", h, FALSE)>> \o @]

\* The tasks files an invocation may find: none mounted, all accepting, all
\* refusing the write, and mixtures of the three
TasksFiles ==
    { [h \in DOMAIN tasks |-> "noent"],
      [h \in DOMAIN tasks |-> "ok"],
      [h \in DOMAIN tasks |-> "wfail"],
      [h \in DOMAIN tasks |-> IF h = "cpu" THEN "ok" ELSE "noent"],
      [h \in DOMAIN tasks |-> IF h = "cpuset" THEN "wfail" ELSE "noent"],
      [h \in DOMAIN tasks |-> IF h = "cpu" THEN "noent"
                              ELSE IF h = "cpuacct" THEN "ok" ELSE "wfail"] }

\* if (!count) exit(1)
CgroupFailed(count) == count = 0

\* case 'g': cgroup(optarg); the *BSD cgroup() does nothing
OptGInvalid(p) ==
    /\ AtOpt(p, "g")
    /\ variant = "linux"
    /\ ~Validate(procs[p].optarg)
    /\ procs' = [procs EXCEPT ![p] = Exited(@, 1)]
    /\ stdout' = stdout \o procs[p].buf
    /\ stderr' = Append(stderr, Diag(p, "invalid path"))
    /\ UNCHANGED <<variant, argv, tasks, trace>>

OptG(p) ==
    /\ AtOpt(p, "g")
    /\ variant = "linux"
    /\ Validate(procs[p].optarg)
    /\ LET me == procs[p]
       IN  \E files \in TasksFiles :
              LET r == CgroupLoop(p, me.fds, files, 1)
                  failed == CgroupFailed(r.count)
              IN  /\ procs' = [procs EXCEPT ![p] = IF failed THEN Exited(me, 1) ELSE Break(me)]
                  /\ tasks' = [h \in DOMAIN tasks |->
                                  IF h \in r.written THEN tasks[h] \cup {p} ELSE tasks[h]]
                  /\ stdout' = IF failed THEN stdout \o me.buf ELSE stdout
                  /\ stderr' = IF failed
                               THEN Append(stderr, Diag(p, "could not add to cgroup"))
                               ELSE stderr
                  /\ trace' = trace \o r.calls
    /\ UNCHANGED <<variant, argv>>

\* A variant of try_schedrt() that hands back the positive error number
\* when the policy change is refused (sensitivity of C14)
TrySchedRtMut(p, pr, optarg, ok) ==
    [ret |-> IF ok THEN 0 ELSE 1,
     proc |-> IF ok THEN [pr EXCEPT !.sched = [policy |-> "RR", prio |-> Atoi(optarg)]]
              ELSE pr,
     calls |-> <<Sys(p, "sched_setscheduler", "", ok)>>]

\* try_schedrt(): sched_setscheduler(getpid(), SCHED_RR, atoi(optarg))
TrySchedRt(p, pr, optarg, ok) ==
    IF variant # "linux" THEN [ret |-> 0, proc |-> pr, calls |-> <<>>]
    ELSE [ret |-> IF ok THEN 0 ELSE -1,
          proc |-> IF ok THEN [pr EXCEPT !.sched = [policy |-> "RR", prio |-> Atoi(optarg)]]
                   ELSE pr,
          calls |-> <<Sys(p, "sched_setscheduler", "", ok)>>]

\* A variant of case 'r' whose scheduling call names getppid(): the policy
\* of the parent process is changed (sensitivity of C21)
OptRMut(p) ==
    /\ AtOpt(p, "r")
    /\ LET me == procs[p]
           parent == procs[p].parent
       IN  /\ procs' = [procs EXCEPT
                           ![p] = Break(me),
                           ![parent] = [@ EXCEPT !.sched =
                                           [policy |-> "RR", prio |-> Atoi(me.optarg)]]]
           /\ trace' = Append(trace, Sys(p, "sched_setscheduler", "", TRUE))
    /\ UNCHANGED <<variant, argv, stdout, stderr, tasks>>

\* case 'r': if (try_schedrt(optarg) < 0) { perror(); return 1; } break
OptR(p) ==
    /\ AtOpt(p, "r")
    /\ LET me == procs[p]
           optarg == procs[p].optarg
       IN  \E ok \in BOOLEAN :
              LET r == TrySchedRt(p, me, optarg, ok)
              IN  /\ procs' = [procs EXCEPT ![p] =
                                  IF r.ret < 0 THEN Exited(r.proc, 1) ELSE Break(r.proc)]
                  /\ stdout' = IF r.ret < 0 THEN stdout \o me.buf ELSE stdout
                  /\ stderr' = IF r.ret < 0
                               THEN Append(stderr, Diag(p, "sched_setscheduler"))
                               ELSE stderr
                  /\ trace' = trace \o r.calls
    /\ UNCHANGED <<variant, argv, tasks>>

----------------------------------------------------------------------------
(* Terminating options: -v, -h, anything else *)

\* A variant of case 'v' without its exit(0): control falls through into
\* case 'n' (sensitivity of C5)
OptVMut(p) ==
    /\ AtOpt(p, "v")
    /\ LET r == TryContain(p, procs[p], "none", 0)
       IN  /\ procs' = [procs EXCEPT ![p] =
                           Break([r.proc EXCEPT !.buf = Append(@, Out(p, "version", <<>>))])]
           /\ trace' = trace \o r.calls
    /\ UNCHANGED <<variant, argv, stdout, stderr, tasks>>

\* case 'v': printf(VERSION); exit(0)
OptV(p) ==
    /\ AtOpt(p, "v")
    /\ procs' = [procs EXCEPT ![p] = Exited(@, 0)]
    /\ stdout' = stdout \o Append(procs[p].buf, Out(p, "version", <<>>))
    /\ UNCHANGED <<variant, argv, stderr, tasks, trace>>

\* case 'h': usage(argv[0]); exit(0)
OptH(p) ==
    /\ AtOpt(p, "h")
    /\ procs' = [procs EXCEPT ![p] = Exited(@, 0)]
    /\ stdout' = stdout \o Append(procs[p].buf, Out(p, "usage", <<>>))
    /\ UNCHANGED <<variant, argv, stderr, tasks, trace>>

\* A variant of the default case that ends with exit(0) (sensitivity of C22)
OptDefaultMut(p) ==
    /\ AtOpt(p, "?")
    /\ procs' = [procs EXCEPT ![p] = Exited(@, 0)]
    /\ stdout' = stdout \o Append(procs[p].buf, Out(p, "usage", <<>>))
    /\ stderr' = Append(stderr, Diag(p, "getopt"))
    /\ UNCHANGED <<variant, argv, tasks, trace>>

\* default: getopt reported an option that is not in OPTS (or one that
\* lacks its argument): usage(argv[0]); exit(1)
OptDefault(p) ==
    /\ AtOpt(p, "?")
    /\ procs' = [procs EXCEPT ![p] = Exited(@, 1)]
    /\ stdout' = stdout \o Append(procs[p].buf, Out(p, "usage", <<>>))
    /\ stderr' = Append(stderr, Diag(p, "getopt"))
    /\ UNCHANGED <<variant, argv, tasks, trace>>

----------------------------------------------------------------------------
(* Launcher *)

\* if (optind < argc) execvp(argv[optind], &argv[optind]): the process image
\* is replaced; pid, descriptors, session, namespaces stay; stdio buffers go
Launch(p) ==
    /\ AtOpt(p, "EOF")
    /\ procs[p].optind <= Len(argv)
    /\ argv[procs[p].optind] \in Executables
    /\ procs' = [procs EXCEPT ![p] =
                    [@ EXCEPT !.pc = "execd", !.buf = <<>>,
                        !.image = SubSeq(argv, procs[p].optind, Len(argv))]]
    /\ trace' = Append(trace, Sys(p, "execvp", "", TRUE))
    /\ UNCHANGED <<variant, argv, stdout, stderr, tasks>>

\* execvp returned: perror(argv[optind]); return 1
LaunchFails(p) ==
    /\ AtOpt(p, "EOF")
    /\ procs[p].optind <= Len(argv)
    /\ argv[procs[p].optind] \notin Executables
    /\ procs' = [procs EXCEPT ![p] = Exited(@, 1)]
    /\ stdout' = stdout \o procs[p].buf
    /\ stderr' = Append(stderr, Diag(p, "execvp"))
    /\ trace' = Append(trace, Sys(p, "execvp", "", FALSE))
    /\ UNCHANGED <<variant, argv, tasks>>

\* optind == argc: usage(argv[0]); return 0
NoCommand(p) ==
    /\ AtOpt(p, "EOF")
    /\ procs[p].optind > Len(argv)
    /\ procs' = [procs EXCEPT ![p] = Exited(@, 0)]
    /\ stdout' = stdout \o Append(procs[p].buf, Out(p, "usage", <<>>))
    /\ UNCHANGED <<variant, argv, stderr, tasks, trace>>

----------------------------------------------------------------------------

Pids == OrchPid..(ToolPid + MaxOpts + 1)

Next ==
    \E p \in Pids :
        \/ OptC(p)
        \/ OptDFork(p)
        \/ OptDForkFails(p)
        \/ ForkParent(p)
        \/ ForkChild(p)
        \/ OptDNoFork(p)
        \/ OptP(p)
        \/ OptV(p)
        \/ OptH(p)
        \/ OptDefault(p)
        \/ OptN(p)
        \/ OptA(p)
        \/ OptGInvalid(p)
        \/ OptG(p)
        \/ OptR(p)
        \/ Launch(p)
        \/ LaunchFails(p)
        \/ NoCommand(p)

Spec == Init /\ [][Next]_vars

----------------------------------------------------------------------------
(* Properties *)

\* The processes of the invocation: the tool and the children of -d
ToolProcs == {p \in DOMAIN procs : procs[p].pc # "other"}

Launched(p) == procs[p].pc = "execd"

\* The option characters whose case process p (or the parent it was forked
\* from) has run
DoneOpts(p) == {procs[p].done[k].c : k \in 1..Len(procs[p].done)}

\* q made a successful fork
Forked(q) == \E i \in 1..Len(trace) : trace[i] = Sys(q, "fork", "", TRUE)

\* The line -p has to write for pid q
PidBytes(q) == <<1>> \o Decimal(q) \o <<10>>

\* p ended in the final usage(): getopt was through and no token was left
MissingCommand(p) ==
    procs[p].pc = "exited" /\ procs[p].c = "EOF" /\ procs[p].optind > Len(argv)

\* A failed step that the tool is to treat as fatal: unshare or either mount
\* of -n; the net namespace open or setns, chroot or chdir of -a; the policy
\* change of -r
FatalStep(e) ==
    /\ ~e.ok
    /\ \/ e.op \in {"unshare", "mount", "chroot", "chdir", "sched_setscheduler"}
       \/ e.op \in {"open", "setns"} /\ e.arg = "net"

\* C1: fail-safe launch.  The command is launched only if every isolation
\* and scheduling step before it succeeded: once a process has exec'd the
\* command, no fatal step of the invocation has failed.
C1_FailSafeLaunch ==
    \A p \in ToolProcs :
        Launched(p) => \A i \in 1..Len(trace) : ~FatalStep(trace[i])

\* C2: pid identity, as claimed.  Once a process has exec'd the command,
\* every pid line on standard output and every pid in a tasks file is the
\* pid of that process, wherever -d stood.
C2_PidIdentity ==
    \A p \in ToolProcs :
        Launched(p) =>
            /\ \A i \in 1..Len(stdout) :
                  stdout[i].kind = "pid" => stdout[i].text = PidBytes(p)
            /\ \A h \in DOMAIN tasks : tasks[h] \subseteq {p}

\* C2, amended.  Once a process p has exec'd the command: every pid line on
\* standard output carries the pid of the process that wrote it, every pid
\* in a tasks file is the pid of a process that wrote it there, and the
\* writer of a pid is p itself exactly if the writer did not fork (-d)
\* after that write.  exec adds no hop; a -d that forks after -p or -g does.
C2_PidIdentityUnlessLaterFork ==
    \A p \in ToolProcs :
        Launched(p) =>
            /\ \A i \in 1..Len(stdout) :
                  stdout[i].kind = "pid" => stdout[i].text = PidBytes(stdout[i].pid)
            /\ \A h \in DOMAIN tasks :
                  tasks[h] = {trace[i].pid : i \in {j \in 1..Len(trace) :
                                  trace[j].op = "write" /\ trace[j].arg = h /\ trace[j].ok}}
            /\ Len(SelectSeq(stdout, LAMBDA o : o.kind = "pid"))
                  = Cardinality({j \in 1..Len(trace) :
                                  trace[j].op = "write" /\ trace[j].arg = "stdout"})
            /\ \A i \in 1..Len(trace) :
                  (trace[i].op = "write" /\ trace[i].ok) =>
                      (trace[i].pid = p <=>
                          ~\E j \in (i + 1)..Len(trace) :
                              trace[j] = Sys(trace[i].pid, "fork", "", TRUE))

\* C2 witness: a command launched by a child of -d after the child itself
\* wrote its pid with -p
C2_Witness ==
    \E p \in ToolProcs :
        /\ Launched(p)
        /\ Forked(procs[p].parent)
        /\ \E i \in 1..Len(stdout) : stdout[i].kind = "pid" /\ stdout[i].pid = p

\* C3: descriptor hygiene.  A process that exec's the command after -c was
\* among its flags has no descriptor open other than 0, 1 and 2.
C3_DescriptorHygiene ==
    \A p \in ToolProcs :
        (Launched(p) /\ "c" \in DoneOpts(p)) => procs[p].fds \subseteq {0, 1, 2}

\* C4: missing command.  A process that found no command token after the
\* flags has printed usage and exited with a non-zero status.
C4_MissingCommandExit ==
    \A p \in ToolProcs :
        MissingCommand(p) =>
            /\ \E i \in 1..Len(stdout) : stdout[i] = Out(p, "usage", <<>>)
            /\ procs[p].status # 0

\* The isolation operations C5 lists: unshare / mount, setns / chroot, the
\* write into a tasks file, the scheduling change
IsolationCall(e) ==
    \/ e.op \in {"unshare", "mount", "setns", "chroot", "sched_setscheduler"}
    \/ e.op = "write" /\ e.arg # "stdout"

\* The flag whose case makes the call
FlagOf(e) ==
    CASE e.op \in {"unshare", "mount"} -> "n"
      [] e.op \in {"setns", "chroot"} -> "a"
      [] e.op = "write" -> "g"
      [] e.op = "sched_setscheduler" -> "r"

\* Some token of argv is an option token that holds flag character ch
HasFlag(ch) ==
    \E t \in 1..Len(argv) :
        /\ Len(argv[t]) >= 2
        /\ argv[t][1] = "-"
        /\ \E k \in 2..Len(argv[t]) : argv[t][k] = ch

\* C5: missing command, no side effect, as claimed.  An invocation that ends
\* in the final usage() for want of a command has attempted no isolation
\* operation.
C5_NoCommandNoIsolation ==
    \A p \in ToolProcs :
        MissingCommand(p) => \A i \in 1..Len(trace) : ~IsolationCall(trace[i])

\* C5, amended.  An invocation that ends in the final usage() for want of a
\* command has attempted no isolation operation other than those of the
\* isolation flags (-n, -a, -g, -r) its argument vector holds; with none of
\* these flags it has attempted none.  (A flag is applied when it is parsed,
\* before the command is looked for.)
C5_NoCommandOnlyFlaggedIsolation ==
    \A p \in ToolProcs :
        MissingCommand(p) =>
            \A i \in 1..Len(trace) :
                IsolationCall(trace[i]) => HasFlag(FlagOf(trace[i]))

\* C5 witness: the final usage() is reached after -n has unshared
C5_Witness ==
    \E p \in ToolProcs :
        /\ MissingCommand(p)
        /\ \E i \in 1..Len(trace) : trace[i] = Sys(p, "unshare", "", TRUE)

\* The processes that still run the option loop (a forked child about to
\* call setsid() included)
Running == {p \in ToolProcs : procs[p].pc \in {"opts", "fork_child"}}

\* C6: terminal detachment by a process-group leader.  A process that forked
\* for -d forked once, did not call setsid() afterwards, runs no later flag
\* and ends with status 0 without launching anything; a process whose fork
\* failed has exited with status 1; a child that went past its setsid() leads
\* a session of its own without controlling terminal; at any time at most
\* one process runs the option loop and at most one has exec'd the command.
C6_DetachLeader ==
    /\ Cardinality(Running) <= 1
    /\ Cardinality({p \in ToolProcs : Launched(p)}) <= 1
    /\ Cardinality(Running) + Cardinality({p \in ToolProcs : Launched(p)}) <= 1
    /\ \A q \in ToolProcs :
          Forked(q) =>
              /\ procs[q].pc \in {"fork_parent", "exited"}
              /\ procs[q].pc = "exited" =>
                    /\ procs[q].status = 0
                    /\ procs[q].done[Len(procs[q].done)].c = "d"
              /\ Cardinality({i \in 1..Len(trace) : trace[i] = Sys(q, "fork", "", TRUE)}) = 1
              /\ \A i, j \in 1..Len(trace) :
                    (i < j /\ trace[i] = Sys(q, "fork", "", TRUE)) =>
                        ~(trace[j].pid = q /\ trace[j].op = "setsid")
    /\ \A q \in ToolProcs :
          (\E i \in 1..Len(trace) : trace[i] = Sys(q, "fork", "", FALSE)) =>
              procs[q].pc = "exited" /\ procs[q].status = 1
    /\ \A p \in ToolProcs :
          (p # ToolPid /\ procs[p].pc # "fork_child") =>
              procs[p].sid = p /\ ~procs[p].ctty

\* C6 witness: the parent of a fork has exited with status 0 and its child
\* has launched the command
C6_Witness ==
    \E p, q \in ToolProcs :
        /\ procs[q].parent = p
        /\ Forked(p)
        /\ procs[p].pc = "exited" /\ procs[p].status = 0
        /\ Launched(q)

\* C7: terminal detachment by a non-leader, as claimed.  A -d run by a
\* process that is not its process-group leader leaves its session and
\* process group as they were and creates no process.
C7_NonLeaderNoOp ==
    [][\A p \in DOMAIN procs :
          (AtOpt(p, "d") /\ procs[p].pgid # p /\ procs'[p] # procs[p]) =>
              /\ DOMAIN procs' = DOMAIN procs
              /\ procs'[p].sid = procs[p].sid
              /\ procs'[p].pgid = procs[p].pgid]_vars

\* C7, amended.  A -d run by a process that is not its process-group
\* leader does not fork and does not exit: the same process goes on with
\* the next flag, its descriptors, namespaces and working directory as
\* before, but setsid() has made it the leader of a new session and of a new
\* process group, without controlling terminal.
C7_NonLeaderSetsid ==
    [][\A p \in DOMAIN procs :
          (AtOpt(p, "d") /\ procs[p].pgid # p /\ procs'[p] # procs[p]) =>
              /\ DOMAIN procs' = DOMAIN procs
              /\ procs'[p].pc = "opts"
              /\ procs'[p].sid = p /\ procs'[p].pgid = p /\ ~procs'[p].ctty
              /\ procs[p].sid # p
              /\ procs'[p].fds = procs[p].fds
              /\ procs'[p].netns = procs[p].netns /\ procs'[p].mntns = procs[p].mntns
              /\ procs'[p].cwd = procs[p].cwd
              /\ trace' = Append(trace, Sys(p, "setsid", "", TRUE))]_vars

\* C7 witness: the tool, started as a non-leader, has gone past a -d and
\* leads its own session
C7_Witness ==
    /\ procs[ToolPid].pc = "opts"
    /\ "d" \in DoneOpts(ToolPid)
    /\ ~Forked(ToolPid)
    /\ procs[ToolPid].sid = ToolPid

\* How many entries of sequence q satisfy Test
Count(q, Test(_)) == Len(SelectSeq(q, Test))

\* The process that was created last: the one the option loop has reached
Front == Max(ToolProcs)

\* C8: pid notification.  At every flag boundary (a process at the switch,
\* forked, exited or exec'd) no output waits in a stdio buffer; every pid
\* line that reached standard output is exactly 0x01, the decimal pid of the
\* process that ran -p, and a newline; and standard output holds one such
\* line for each -p that has run, no more and no fewer, whatever fork, exit
\* or exec followed.
C8_PidNotification ==
    /\ \A p \in ToolProcs : procs[p].buf = <<>>
    /\ \A i \in 1..Len(stdout) :
          stdout[i].kind = "pid" =>
              /\ stdout[i].text = PidBytes(stdout[i].pid)
              /\ stdout[i].pid = ToolPid => stdout[i].text = <<1, 52, 49, 10>>
              /\ \E k \in 1..Len(procs[stdout[i].pid].done) :
                    procs[stdout[i].pid].done[k].c = "p"
    /\ Count(stdout, LAMBDA o : o.kind = "pid")
          = Count(procs[Front].done, LAMBDA d : d.c = "p")

\* C8 witness: a pid line is on standard output, its writer has forked and
\* exited since, and the child has launched the command
C8_Witness ==
    \E i \in 1..Len(stdout), p \in ToolProcs :
        /\ stdout[i].kind = "pid"
        /\ Forked(stdout[i].pid)
        /\ procs[stdout[i].pid].pc = "exited"
        /\ Launched(p)

\* The characters the specification allows in a cgroup path: [A-Za-z0-9/]
PathChars == Digit \cup Lower \cup Upper \cup {"/"}
ValidPath(path) == \A i \in 1..Len(path) : path[i] \in PathChars

\* Calls of kind op, and the cases of -g that found a valid path
CallsOf(op) == Count(trace, LAMBDA e : e.op = op)
ValidJoins(p) == Count(procs[p].done, LAMBDA d : d.c = "g" /\ ValidPath(d.optarg))

\* The k-th option of p ended p: its case exited, no later case ran
StoppedAt(p, k) ==
    procs[p].pc = "exited" /\ procs[p].c # "EOF" /\ k = Len(procs[p].done)

\* C9: invalid cgroup path.  A -g whose argument holds a character outside
\* [A-Za-z0-9/] is the last option its process runs: the process has exited
\* with status 1, and the only tasks files ever opened are those of the -g
\* flags with a valid path (one fopen per hierarchy each).
C9_InvalidPath ==
    /\ \A p \in ToolProcs :
          \A k \in 1..Len(procs[p].done) :
              (procs[p].done[k].c = "g" /\ ~ValidPath(procs[p].done[k].optarg)) =>
                  StoppedAt(p, k) /\ procs[p].status = 1
    /\ CallsOf("fopen") = Len(Hierarchies) * ValidJoins(Front)

\* C9 witness: a -g with the path ";" has ended the invocation
C9_Witness ==
    \E p \in ToolProcs :
        /\ procs[p].pc = "exited"
        /\ procs[p].c = "g"
        /\ procs[p].optarg = <<";">>

\* The places of the fopen() calls in the trace, in order: the m-th -g with
\* a valid path made the calls 3m-2 .. 3m of them
FopenAt == SelectSeq([i \in 1..Len(trace) |-> i], LAMBDA i : trace[i].op = "fopen")

\* The m-th join had its pid accepted by some hierarchy: one of its fopen()
\* calls succeeded and the write that follows it succeeded too
Accepted(m) ==
    \E t \in (Len(Hierarchies) * (m - 1) + 1)..(Len(Hierarchies) * m) :
        /\ trace[FopenAt[t]].ok
        /\ trace[FopenAt[t] + 1].op = "write"
        /\ trace[FopenAt[t] + 1].ok

\* C10: cgroup join outcome.  A process goes on past a -g with a valid path
\* if and only if that -g wrote its pid into the tasks file of at least one
\* hierarchy; otherwise the -g is its last option and it has exited with
\* status 1.
C10_JoinOutcome ==
    \A p \in ToolProcs :
        \A k \in 1..Len(procs[p].done) :
            (procs[p].done[k].c = "g" /\ ValidPath(procs[p].done[k].optarg)) =>
                LET m == Count(SubSeq(procs[p].done, 1, k),
                               LAMBDA d : d.c = "g" /\ ValidPath(d.optarg))
                IN  IF Accepted(m)
                    THEN ~StoppedAt(p, k)
                    ELSE StoppedAt(p, k) /\ procs[p].status = 1


\* The last system interaction of the invocation so far
LastCall == trace[Len(trace)]

\* C11: join of a non-existent pid.  A -a whose argument names no existing
\* process is the last option its process runs: the process has exited with
\* status 1 (so it never launches the command), a diagnostic is on standard
\* error, and the failed open of the network namespace file is the last
\* system interaction of the invocation: no setns, no open of the mount
\* namespace file, no chroot and no chdir follows it.
C11_JoinMissingPid ==
    \A p \in ToolProcs :
        \A k \in 1..Len(procs[p].done) :
            (procs[p].done[k].c = "a" /\ Atoi(procs[p].done[k].optarg) \notin ExistingPids) =>
                /\ StoppedAt(p, k)
                /\ procs[p].status = 1
                /\ trace # <<>>
                /\ LastCall = Sys(p, "open", "net", FALSE)
                /\ stderr # <<>>
                /\ stderr[Len(stderr)] = Diag(p, "ns/net")

\* C11 witness: after an earlier flag has run, -a 9 (no such process) has
\* ended the invocation
C11_Witness ==
    \E p \in ToolProcs :
        /\ procs[p].pc = "exited"
        /\ procs[p].c = "a"
        /\ procs[p].optarg = <<"9">>
        /\ Len(procs[p].done) >= 2

\* C12: working directory round trip of -a.  Whenever a -a completes and
\* its process goes on with the next flag, the working directory of the
\* process is the one it had before the flag; a chdir that fails ends the
\* invocation with status 1.
C12_CwdRoundTrip ==
    [][\A p \in DOMAIN procs :
          (AtOpt(p, "a") /\ procs'[p] # procs[p]) =>
              /\ procs'[p].pc = "opts" => procs'[p].cwd = procs[p].cwd
              /\ (trace'[Len(trace')].op = "chdir" /\ ~trace'[Len(trace')].ok) =>
                    procs'[p].pc = "exited" /\ procs'[p].status = 1]_vars

\* The system interactions the step under way adds to the trace
NewCalls == SubSeq(trace', Len(trace) + 1, Len(trace'))

\* C13: plan A / plan B ordering of -a.  Within one -a: the mount namespace
\* file is opened (and setns called on it) only after the setns into the
\* network namespace succeeded; chroot is called if and only if the open of
\* the mount namespace file or the setns on it failed; a failed chroot ends
\* the invocation with status 1; no chroot follows a successful setns into
\* the mount namespace.
C13_PlanOrdering ==
    [][\A p \in DOMAIN procs :
          (AtOpt(p, "a") /\ procs'[p] # procs[p]) =>
              LET new == NewCalls
                  Has(op, arg, ok) == \E i \in 1..Len(new) : new[i] = Sys(p, op, arg, ok)
                  Chroot == \E i \in 1..Len(new) : new[i].op = "chroot"
              IN  /\ \A j \in 1..Len(new) :
                        new[j].arg = "mnt" =>
                            \E i \in 1..(j - 1) : new[i] = Sys(p, "setns", "net", TRUE)
                  /\ Chroot <=> (Has("open", "mnt", FALSE) \/ Has("setns", "mnt", FALSE))
                  /\ Has("chroot", "", FALSE) =>
                        procs'[p].pc = "exited" /\ procs'[p].status = 1
                  /\ Has("setns", "mnt", TRUE) => ~Chroot
                  /\ \A j \in 1..Len(new) :
                        new[j].op = "chroot" =>
                            \E i \in 1..(j - 1) : new[i].arg = "mnt" /\ ~new[i].ok]_vars

\* C13 witness: a -a went through the chroot fallback after the setns on
\* the mount namespace was refused, and the command was launched
C13_Witness ==
    \E p \in ToolProcs :
        /\ Launched(p)
        /\ \E i \in 1..Len(trace) :
              /\ trace[i] = Sys(p, "setns", "mnt", FALSE)
              /\ trace[i + 1] = Sys(p, "chroot", "", TRUE)

\* C14: real-time priority.  A -r n makes one scheduling call, for the
\* calling process itself.  If the call succeeds the process runs under the
\* round-robin policy with priority n, goes on with the next flag, and no
\* other process is touched.  If the call is refused the process exits with
\* status 1 after a diagnostic, its policy unchanged; the refused call is
\* then the last system interaction of the invocation (no later flag, no
\* launch).
C14_RealTimePriority ==
    /\ [](\A i \in 1..Len(trace) :
             (trace[i].op = "sched_setscheduler" /\ ~trace[i].ok) =>
                 /\ i = Len(trace)
                 /\ procs[trace[i].pid].pc = "exited"
                 /\ procs[trace[i].pid].status = 1)
    /\ [][\A p \in DOMAIN procs :
             (AtOpt(p, "r") /\ procs'[p] # procs[p]) =>
                 /\ \A q \in DOMAIN procs \ {p} : procs'[q] = procs[q]
                 /\ DOMAIN procs' = DOMAIN procs
                 /\ \/ /\ NewCalls = <<Sys(p, "sched_setscheduler", "", TRUE)>>
                       /\ procs'[p].pc = "opts"
                       /\ procs'[p].sched = [policy |-> "RR", prio |-> Atoi(procs[p].optarg)]
                       /\ stderr' = stderr
                    \/ /\ NewCalls = <<Sys(p, "sched_setscheduler", "", FALSE)>>
                       /\ procs'[p].pc = "exited"
                       /\ procs'[p].status = 1
                       /\ procs'[p].sched = procs[p].sched
                       /\ stderr' = Append(stderr, Diag(p, "sched_setscheduler"))]_vars

\* C14 witness: a first -r 5 was applied, a second one was refused and has
\* ended the invocation
C14_Witness ==
    \E p \in ToolProcs :
        /\ procs[p].pc = "exited"
        /\ procs[p].c = "r"
        /\ procs[p].status = 1
        /\ procs[p].sched = [policy |-> "RR", prio |-> 5]

\* The flags of the capability-rich variant only
RichFlags == {"n", "a", "g", "r"}

\* The option character getopt looked at in its last call for p
CurrentFlag(p) ==
    LET pr == procs[p]
    IN  IF pr.nextchar = 0
        THEN argv[pr.optind - 1][Len(argv[pr.optind - 1])]
        ELSE argv[pr.optind][pr.nextchar - 1]

LooksLikeFlag(tok) == Len(tok) >= 2 /\ tok[1] = "-" /\ tok # <<"-", "-">>

\* The options a flag token holds from position k on, in order; an option
\* that takes an argument ends the token: its argument is the rest of the
\* token or, if nothing is left, the token that follows (next)
RECURSIVE TokenFlags(_, _, _)
TokenFlags(tok, k, next) ==
    IF k > Len(tok) THEN <<>>
    ELSE IF TakesArg(OPTS, tok[k])
    THEN <<[c |-> tok[k],
            optarg |-> IF k < Len(tok) THEN SubSeq(tok, k + 1, Len(tok)) ELSE next]>>
    ELSE <<[c |-> tok[k], optarg |-> <<>>]>> \o TokenFlags(tok, k + 1, next)

\* The last option of the token takes an argument and none before it does:
\* the following token is an option-argument
ArgDetached(tok) ==
    /\ TakesArg(OPTS, tok[Len(tok)])
    /\ \A k \in 2..(Len(tok) - 1) : ~TakesArg(OPTS, tok[k])

\* Reading argv from token i, left to right: the flags in front of the first
\* token that is neither a flag token nor an option-argument, and the place
\* (stop) of that token
RECURSIVE Scan(_)
Scan(i) ==
    IF i > Len(argv) \/ ~LooksLikeFlag(argv[i])
    THEN [flags |-> <<>>, stop |-> i]
    ELSE LET det  == ArgDetached(argv[i])
             next == IF i < Len(argv) THEN argv[i + 1] ELSE <<>>
             rest == Scan(IF det THEN i + 2 ELSE i + 1)
         IN  [flags |-> TokenFlags(argv[i], 2, next) \o rest.flags, stop |-> rest.stop]

\* The flag whose case makes a system interaction of the option loop
LetterOf(e) ==
    CASE e.op = "close" -> "c"
      [] e.op \in {"fork", "setsid"} -> "d"
      [] e.op = "write" /\ e.arg = "stdout" -> "p"
      [] e.op \in {"unshare", "mount"} -> "n"
      [] e.op \in {"open", "setns", "chroot", "chdir"} -> "a"
      [] e.op = "fopen" \/ (e.op = "write" /\ e.arg # "stdout") -> "g"
      [] e.op = "sched_setscheduler" -> "r"
      [] OTHER -> "exec"

\* A sequence with every run of equal neighbours reduced to one entry
RECURSIVE Collapse(_)
Collapse(q) ==
    IF Len(q) <= 1 THEN q
    ELSE IF q[1] = q[2] THEN Collapse(Tail(q))
    ELSE <<q[1]>> \o Collapse(Tail(q))

\* Flags are applied as they are read: what a process has run so far is a
\* front part of the flags of argv, in their order and with their
\* arguments ("?" where getopt rejected the character), and one step runs
\* at most one flag.  A process that launched the command has run all of
\* them, and the system interactions of the invocation before the exec
\* follow the order of the flags.
AppliedInOrder ==
    LET flags == Scan(1).flags
    IN  \A p \in ToolProcs :
            LET done == procs[p].done
            IN  /\ Len(done) <= Len(flags)
                /\ \A k \in 1..Len(done) :
                      \/ done[k].c = "?"
                      \/ done[k] = flags[k]
                /\ Launched(p) =>
                      /\ done = flags
                      /\ Collapse([i \in 1..(Len(trace) - 1) |-> LetterOf(trace[i])])
                            = Collapse([k \in 1..Len(done) |-> done[k].c])

\* C16: flag interpretation, as claimed.  Flags are applied as they are
\* read, left to right; the first token that is neither a flag nor an
\* option-argument and every token after it are the argument vector of the
\* launched command, unchanged and in order.
C16_FlagInterpretation ==
    /\ AppliedInOrder
    /\ \A p \in ToolProcs :
          Launched(p) => procs[p].image = SubSeq(argv, Scan(1).stop, Len(argv))

\* The place where the command starts: behind the option terminator "--" if
\* that is the token the scan stopped at
CommandStart ==
    LET stop == Scan(1).stop
    IN  IF stop <= Len(argv) /\ argv[stop] = <<"-", "-">> THEN stop + 1 ELSE stop

\* C16, amended.  Flags are applied as they are read, left to right.
\* Parsing stops at the first token that is neither a flag nor an
\* option-argument.  If that token is the option terminator "--" it is
\* dropped and the command starts with the token after it; otherwise the
\* command starts with that token.  From there on the tokens are the
\* argument vector of the launched command, unchanged and in order, and none
\* of them is applied as a flag.
C16_FlagInterpretationTerminator ==
    /\ AppliedInOrder
    /\ \A p \in ToolProcs :
          Launched(p) =>
              /\ procs[p].image = SubSeq(argv, CommandStart, Len(argv))
              /\ procs[p].optind = CommandStart

\* C16 witness: a command with a trailing -d was launched after a flag and
\* the option terminator
C16_Witness ==
    \E p \in ToolProcs :
        /\ Launched(p)
        /\ Len(procs[p].done) >= 1
        /\ argv[procs[p].optind - 1] = <<"-", "-">>
        /\ procs[p].image = << <<"l", "s">>, <<"-", "d">> >>

\* C17: no retained handles.  When the case of a flag is over and its
\* process goes on with the next flag, the process holds no descriptor that
\* it did not hold before the flag: what -a and -g opened is closed again.
C17_NoRetainedHandles ==
    [][\A p \in DOMAIN procs :
          (procs[p].pc = "opts" /\ procs'[p].pc = "opts") =>
              procs'[p].fds \subseteq procs[p].fds]_vars

\* The places of the execvp calls in the trace
ExecAt == {i \in 1..Len(trace) : trace[i].op = "execvp"}

\* C18: launcher.  The exec is attempted at most once in an invocation and
\* is its last system interaction; the process that attempts it has run
\* every flag in front of the command, and no step that is to be fatal has
\* failed before; every other process of the invocation has ended or is a
\* parent of -d about to return; an exec that fails leaves its process
\* exited with status 1 after a diagnostic.
C18_Launcher ==
    /\ Cardinality(ExecAt) <= 1
    /\ \A i \in ExecAt :
          LET p == trace[i].pid
          IN  /\ i = Len(trace)
              /\ procs[p].c = "EOF"
              /\ procs[p].done = Scan(1).flags
              /\ \A j \in 1..(i - 1) : ~FatalStep(trace[j])
              /\ \A q \in ToolProcs \ {p} : procs[q].pc \in {"exited", "fork_parent"}
              /\ IF trace[i].ok
                 THEN Launched(p)
                 ELSE /\ procs[p].pc = "exited"
                      /\ procs[p].status = 1
                      /\ stderr # <<>>
                      /\ stderr[Len(stderr)] = Diag(p, "execvp")

\* The environment in which every call of -a succeeds (plan A)
AllGranted ==
    [netOpen |-> TRUE, netSetns |-> TRUE, mntOpen |-> TRUE, mntSetns |-> TRUE,
     chroot |-> FALSE, chdir |-> FALSE]

\* What the case of flag f makes of process state pr when each of its calls
\* succeeds
Apply(p, f, pr) ==
    CASE f.c = "c" -> [pr EXCEPT !.fds = CloseFrom(@, DTableSize)]
      [] f.c = "n" -> TryContain(p, pr, "none", 0).proc
      [] f.c = "a" -> Attach(p, pr, Atoi(f.optarg), AllGranted).proc
      [] f.c = "r" -> TrySchedRt(p, pr, f.optarg, TRUE).proc
      [] OTHER -> pr

\* The part of a process state that C19 compares
Outcome(pr) ==
    [fds |-> pr.fds, sid |-> pr.sid, pgid |-> pr.pgid, ctty |-> pr.ctty,
     netns |-> pr.netns, mntns |-> pr.mntns, root |-> pr.root, cwd |-> pr.cwd,
     private |-> pr.private, sysfs |-> pr.sysfs, sched |-> pr.sched]

\* The flags C19 calls independent of each other: -c and the isolation and
\* scheduling flags, two different ones
Independent(f, g) == f.c # g.c /\ {f.c, g.c} \subseteq {"c", "n", "a", "g", "r"}

Exchangeable(f, g) ==
    /\ Independent(f, g)
    /\ {f.c, g.c} # {"n", "a"}
    /\ {f.c, g.c} # {"c", "a"}

Recoverable(e) ==
    \/ e.op \in {"open", "setns"} /\ e.arg = "mnt"
    \/ e.op = "fopen"

\* The failed system interaction at place i of the trace ended the
\* invocation: its process has exited with a status other than 0, left a
\* diagnostic on standard error, and nothing was called after it but what
\* is left of the same library function
Fatal(i) ==
    LET p == trace[i].pid
    IN  /\ procs[p].pc = "exited"
        /\ procs[p].status # 0
        /\ \E k \in 1..Len(stderr) : stderr[k].pid = p
        /\ \A j \in (i + 1)..Len(trace) :
              trace[j].pid = p /\ trace[j].op \in {"fopen", "write"} /\ trace[i].op = "write"

\* C20: no swallowed error.  Every system interaction that failed, other
\* than a recoverable one, has ended the invocation with a diagnostic and a
\* non-zero exit status: unshare, mount, the open of and the setns into the
\* network namespace, chroot, chdir, setsid, fork, the scheduling change,
\* exec and the write of the pid into a tasks file.
C20_NoSwallowedError ==
    \A i \in 1..Len(trace) :
        (~trace[i].ok /\ ~Recoverable(trace[i])) => Fatal(i)

\* C21: caller isolation.  Whatever the flags and the outcome, the
\* orchestrator and the process -a names are as they were when the tool
\* started (namespaces, root, scheduling policy, session, process group);
\* only processes of the invocation are in a tasks file; every system
\* interaction is made by a process of the invocation; and a step changes
\* the state of no process but the one that takes it, or adds its -d child.
C21_CallerIsolation ==
    /\ [](/\ procs[OrchPid] = Bystander(OrchPid, "host")
          /\ procs[TargetPid] = Bystander(TargetPid, "target")
          /\ \A h \in DOMAIN tasks : tasks[h] \subseteq ToolProcs
          /\ \A i \in 1..Len(trace) : trace[i].pid \in ToolProcs)
    /\ [][\A q \in DOMAIN procs :
             procs'[q] # procs[q] =>
                 /\ q \in ToolProcs
                 /\ procs[q].pc \in {"opts", "fork_parent", "fork_child"}
                 /\ \A r \in DOMAIN procs \ {q} : procs'[r] = procs[r]
                 /\ \A r \in DOMAIN procs' \ DOMAIN procs :
                       procs'[r].parent = q /\ procs[q].c = "d"
                 /\ \A h \in DOMAIN tasks : tasks'[h] \subseteq tasks[h] \cup {q}]_vars

\* C21 witness: a child of -d has unshared its namespaces, joined a cgroup
\* hierarchy or changed its scheduling policy, and has launched the command
C21_Witness ==
    \E p \in ToolProcs :
        /\ p # ToolPid
        /\ Launched(p)
        /\ \/ procs[p].netns = "new"
           \/ procs[p].sched.policy = "RR"
           \/ \E h \in DOMAIN tasks : p \in tasks[h]

\* The flags that end the invocation where they stand: -v, -h and whatever
\* getopt rejects
Terminating == {"v", "h", "?"}

\* C22: terminating flags.  A -v, a -h or a rejected flag is the last flag
\* its process runs: the process has exited, with status 0 for -v and -h and
\* status 1 for a rejected flag, after printing the version or the usage
\* text as the last output; a rejected flag is one that is not in OPTS or
\* lacks its argument.  The flags to its left, and no others, have been run
\* in their order, and so the system interactions of the invocation are
\* theirs; no exec was attempted.
C22_TerminatingFlags ==
    \A p \in ToolProcs :
        \A k \in 1..Len(procs[p].done) :
            procs[p].done[k].c \in Terminating =>
                LET done  == procs[p].done
                    flags == Scan(1).flags
                    c     == done[k].c
                IN  /\ StoppedAt(p, k)
                    /\ procs[p].status = (IF c = "?" THEN 1 ELSE 0)
                    /\ stdout # <<>>
                    /\ stdout[Len(stdout)] =
                          Out(p, IF c = "v" THEN "version" ELSE "usage", <<>>)
                    /\ k <= Len(flags)
                    /\ \A j \in 1..(k - 1) : done[j] = flags[j] /\ done[j].c \notin Terminating
                    /\ IF c = "?"
                       THEN \/ ~HasOpt(OPTS, flags[k].c)
                            \/ TakesArg(OPTS, flags[k].c) /\ flags[k].optarg = <<>>
                       ELSE flags[k].c = c
                    /\ Collapse([i \in 1..Len(trace) |-> LetterOf(trace[i])])
                          = Collapse([j \in 1..(k - 1) |-> done[j].c])
                    /\ ExecAt = {}

\* C22 witness: a -v that stands behind -n has ended the invocation after
\* the namespaces were unshared
C22_Witness ==
    \E p \in ToolProcs :
        /\ procs[p].pc = "exited"
        /\ procs[p].c = "v"
        /\ procs[p].status = 0
        /\ procs[p].netns = "new"

\* C23: session creation cannot be refused.  Whenever setsid() is called
\* the caller is not a process-group leader, and the call is granted: the
\* caller goes on with the next flag as leader of a new session and process
\* group, without controlling terminal.  Every process that has gone past a
\* -d is in this condition, however many -d it has passed.
C23_SetsidGranted ==
    /\ [](/\ \A i \in 1..Len(trace) : trace[i].op = "setsid" => trace[i].ok
          /\ \A p \in ToolProcs :
                \A k \in 1..Len(procs[p].done) :
                    ( /\ procs[p].done[k].c = "d"
                      /\ procs[p].pc # "fork_child"
                      /\ (k < Len(procs[p].done) \/ procs[p].pc \in {"opts", "execd"}) ) =>
                        /\ procs[p].sid = p
                        /\ procs[p].pgid = p
                        /\ ~procs[p].ctty)
    /\ [][\A p \in DOMAIN procs :
             (\E i \in 1..Len(NewCalls) : NewCalls[i].pid = p /\ NewCalls[i].op = "setsid") =>
                 /\ procs[p].pgid # p
                 /\ procs[p].sid # p
                 /\ NewCalls = <<Sys(p, "setsid", "", TRUE)>>
                 /\ procs'[p].pc = "opts"
                 /\ procs'[p].sid = p /\ procs'[p].pgid = p /\ ~procs'[p].ctty
                 /\ procs'[p].done = Append(procs[p].done, [c |-> "d", optarg |-> <<>>])]_vars

\* C23 witness: -d was given twice to a process-group leader; the child of
\* the child has launched the command as leader of its own session
C23_Witness ==
    \E p \in ToolProcs :
        /\ p = ToolPid + 2
        /\ Launched(p)
        /\ procs[p].sid = p
        /\ Len(SelectSeq(procs[p].done, LAMBDA d : d.c = "d")) = 2

====
